---------------------------- MODULE Spec2Model ----------------------------
(***************************************************************************)
(* A model of the LeetCode leaderboard dashboard (src/main.py).            *)
(*                                                                         *)
(* The dashboard is one script that the UI framework runs from top to      *)
(* bottom on every interaction.  Its state is the persisted user list      *)
(* (tracked_users.csv), the two memoized fetchers (get_profile and         *)
(* get_skill_table, TTL 1800 s), and the session's prev_ranks.  The        *)
(* module holds several specifications over the same variables:            *)
(*   SpecStore     the user list and the three handlers that write it      *)
(*   SpecCache     the two memoized fetchers, the clock and the clear      *)
(*   SpecPipeline  whole script runs: handlers, fetch loop, prev_ranks     *)
(*   SpecRank, SpecAccuracy, SpecSkill, SpecBoard, SpecHeat                *)
(*                 the pure functions, applied to inputs drawn by Init     *)
(***************************************************************************)
EXTENDS Integers, Sequences, FiniteSets, TLC

VARIABLES
    csv,         \* tracked_users.csv: the username field of each row, as text
    msg,         \* the sidebar message of the last handler
    lastAdd,     \* history: the last "Add User(s)" click, call by call
    profCache,   \* get_profile's memo: username -> entry or NoEntry
    skillCache,  \* get_skill_table's memo: username -> entry or NoEntry
    clock,       \* seconds since the session started
    ticks,       \* the advances of the clock so far, by their length
    log,         \* history: the fetches and cache clears, in order
    prev_ranks,  \* st.session_state.prev_ranks: username -> rank or "N/A"
    lastRun,     \* history: the last run of the fetch loop
    arg,         \* the input of the pure function under check
    res          \* its result, or Pending

vars == <<csv, msg, lastAdd, profCache, skillCache, clock, ticks, log,
          prev_ranks, lastRun, arg, res>>

storeVars == <<csv, msg, lastAdd>>
cacheVars == <<profCache, skillCache, clock, ticks, log>>
runVars   == <<prev_ranks, lastRun>>
pureVars  == <<arg, res>>

(***************************************************************************)
(* Bounds of the model.                                                    *)
(***************************************************************************)
MaxRows  == 3   \* rows of tracked_users.csv
MaxBulk  == 2   \* comma-separated tokens in one "Add User(s)" input
MaxLog   == 4   \* fetches and clears recorded
MaxRank  == 8   \* remote ranks are 1..MaxRank
MaxSub   == 3   \* submission counts are 0..MaxSub
MaxSolved == 2  \* solved counts are 0..MaxSolved
MaxLevels == 2  \* keys of one skill response
MaxBuckets == 2 \* entries of a submission-count array
MaxBoard == 3   \* rows of the leaderboard

(***************************************************************************)
(* Program constants.                                                      *)
(***************************************************************************)
CACHE_TTL == 1800

\* Values the script handles side by side (an int, None, "N/A", a missing
\* key) are records of one shape, [k, n], so that they can be compared.
IntR(n) == [k |-> "int", n |-> n]
None    == [k |-> "None", n |-> 0]
NA      == [k |-> "N/A", n |-> 0]
Missing == [k |-> "missing", n |-> 0]
Pending == [k |-> "pending", n |-> 0]

Range(s) == {s[i] : i \in 1..Len(s)}

SeqsUpTo(S, n) == UNION {[1..k -> S] : k \in 0..n}

(***************************************************************************)
(* The user store.                                                         *)
(*                                                                         *)
(* The file holds text.  pd.read_csv infers the column's type: a column    *)
(* whose fields are all numeric is read as integers, any other column as   *)
(* the strings themselves.  A parsed value is [t, v]: its type and its     *)
(* text.  The usernames of the model are two ordinary names and one        *)
(* all-digit name.                                                         *)
(***************************************************************************)
Usernames    == {"alice", "bob", "123"}
NumericNames == {"123"}

\* What the user can type between two commas.
Tokens == Usernames \cup {"", " alice "}

\* str.strip on the tokens of the model.
Strip(s) == IF s = " alice " THEN "alice" ELSE s

StrV(s) == [t |-> "str", v |-> s]
IntV(s) == [t |-> "int", v |-> s]

\* pd.read_csv(CSV_FILE)["username"]
load_users(file) ==
    IF Len(file) > 0 /\ \A i \in 1..Len(file) : file[i] \in NumericNames
    THEN [i \in 1..Len(file) |-> IntV(file[i])]
    ELSE [i \in 1..Len(file) |-> StrV(file[i])]

\* df.to_csv(CSV_FILE, index=False): every value is written as its text.
save_users(df) == [i \in 1..Len(df) |-> df[i].v]

\* username not in df["username"].values: a str equals no integer.
NotTracked(username, df) == \A i \in 1..Len(df) : df[i] # StrV(username)

\* add_user: the file afterwards and the value returned.
add_user(file, raw) ==
    LET df       == load_users(file)
        username == Strip(raw)
    IN  IF username # "" /\ NotTracked(username, df)
        THEN [file |-> save_users(Append(df, StrV(username))), ret |-> TRUE]
        ELSE [file |-> file, ret |-> FALSE]

RECURSIVE FilterNe(_, _)
FilterNe(df, user) ==
    IF df = <<>> THEN <<>>
    ELSE LET rest == FilterNe(Tail(df), user)
         IN  IF Head(df) # user THEN <<Head(df)>> \o rest ELSE rest

\* remove_user: user is a value of the loaded column.
remove_user(file, user) == save_users(FilterNe(load_users(file), user))

\* The loop of the "Add User(s)" handler: the files before each call and after
\* the last one, and what each call returned.
RECURSIVE AddLoop(_, _)
AddLoop(file, toks) ==
    IF toks = <<>> THEN [files |-> <<file>>, rets |-> <<>>]
    ELSE LET r    == add_user(file, Head(toks))
             rest == AddLoop(r.file, Tail(toks))
         IN  [files |-> <<file>> \o rest.files, rets |-> <<r.ret>> \o rest.rets]

RECURSIVE DropBlank(_)
DropBlank(toks) ==
    IF toks = <<>> THEN <<>>
    ELSE IF Strip(Head(toks)) = "" THEN DropBlank(Tail(toks))
         ELSE <<Strip(Head(toks))>> \o DropBlank(Tail(toks))

\* bulk_input.strip() is empty: the input has no comma and only blanks.
BlankInput(input) == Len(input) = 1 /\ Strip(input[1]) = ""

Last(s) == s[Len(s)]

\* The "Add User(s)" handler on the file: the file afterwards, the message,
\* whether it asks for a rerun, and the history of its add_user calls.
AddHandler(file, input) ==
    IF BlankInput(input)
    THEN [file |-> file, msg |-> "Enter at least one username.", rerun |-> FALSE,
          toks |-> <<>>, files |-> <<file>>, rets |-> <<>>]
    ELSE LET toks == DropBlank(input)
             r    == AddLoop(file, toks)
             any  == \E i \in 1..Len(r.rets) : r.rets[i]
         IN  [file  |-> Last(r.files),
              msg   |-> IF any THEN "Added" ELSE "All usernames already exist.",
              rerun |-> any,
              toks  |-> toks, files |-> r.files, rets |-> r.rets]

NoAdd == [toks |-> <<>>, files |-> <<<<>>>>, rets |-> <<>>]

\* A click on "Add User(s)" with input split at its commas.
AddUsers(input) ==
    /\ Len(csv) + Len(input) <= MaxRows
    /\ LET h == AddHandler(csv, input)
       IN  /\ csv' = h.file
           /\ msg' = h.msg
           /\ lastAdd' = [toks |-> h.toks, files |-> h.files, rets |-> h.rets]
    /\ UNCHANGED <<cacheVars, runVars, pureVars>>

\* A click on the "Remove" button of row i.
RemoveUser(i) ==
    /\ i \in 1..Len(csv)
    /\ csv' = remove_user(csv, load_users(csv)[i])
    /\ msg' = ""
    /\ lastAdd' = NoAdd
    /\ UNCHANGED <<cacheVars, runVars, pureVars>>

\* The data editor returned a table that differs from the loaded one.
EditSave(edited) ==
    /\ Len(csv) > 0
    /\ edited # csv
    /\ csv' = edited
    /\ msg' = "User list updated!"
    /\ lastAdd' = NoAdd
    /\ UNCHANGED <<cacheVars, runVars, pureVars>>



(***************************************************************************)
(* The values of the variables a specification does not use.               *)
(***************************************************************************)
Users == {"alice", "bob"}

NoEntry == [present |-> FALSE, ts |-> 0, data |-> None]

EmptyCache == [u \in Users |-> NoEntry]

NoRun == [ran |-> FALSE]

NoRanks == [u \in Users |-> Missing]

(***************************************************************************)
(* SpecStore: the persisted list under the handlers that write it.  The    *)
(* fetch loop between two clicks reads the list and never writes it; the   *)
(* editor and the Remove buttons are drawn only after a non-empty list     *)
(* was loaded (line 144).                                                  *)
(***************************************************************************)
InitStore ==
    /\ csv = <<>> /\ msg = "" /\ lastAdd = NoAdd
    /\ profCache = EmptyCache /\ skillCache = EmptyCache
    /\ clock = 0 /\ ticks = {} /\ log = <<>>
    /\ prev_ranks = NoRanks /\ lastRun = NoRun
    /\ arg = Pending /\ res = Pending

NextStore ==
    \/ \E input \in SeqsUpTo(Tokens, MaxBulk) \ {<<>>} : AddUsers(input)
    \/ \E i \in 1..MaxRows : RemoveUser(i)
    \/ \E edited \in SeqsUpTo(Usernames, MaxRows) : EditSave(edited)

SpecStore == InitStore /\ [][NextStore]_vars

\* C3: every add_user call of an "Add User(s)" click whose username is
\* already in the tracked list leaves the persisted list as it was (no
\* duplicate row) and returns False.
C3_AddIdempotent ==
    \A i \in 1..Len(lastAdd.toks) :
        lastAdd.toks[i] \in Range(lastAdd.files[i]) =>
            /\ lastAdd.files[i + 1] = lastAdd.files[i]
            /\ lastAdd.rets[i] = FALSE

\* C3, its last clause: the click then reports that the username already
\* exists.  The handler reports it only when no call of the click added a row.
C3_ReportsExisting ==
    \A i \in 1..Len(lastAdd.toks) :
        lastAdd.toks[i] \in Range(lastAdd.files[i]) =>
            msg = "All usernames already exist."

\* C4: no username is in more than one row of the persisted list.
C4_UsernameUnique ==
    \A i, j \in 1..Len(csv) : i # j => csv[i] # csv[j]


(***************************************************************************)
(* Sorting.  A table is sorted through the keys of its rows; a key is a    *)
(* pair of integers compared lexicographically.                            *)
(***************************************************************************)
KeyLess(a, b) == a[1] < b[1] \/ (a[1] = b[1] /\ a[2] < b[2])

\* x placed after every row whose key is not greater than its own.
RECURSIVE InsertStable(_, _)
InsertStable(x, s) ==
    IF s = <<>> THEN <<x>>
    ELSE IF KeyLess(x.key, Head(s).key) THEN <<x>> \o s
         ELSE <<Head(s)>> \o InsertStable(x, Tail(s))

RECURSIVE SortInto(_, _)
SortInto(rest, acc) ==
    IF rest = <<>> THEN acc
    ELSE SortInto(Tail(rest), InsertStable(Head(rest), acc))

\* A stable sort of rows [key, val]: equal keys keep their order.
StableSort(items) == SortInto(items, <<>>)

Vals(items) == [i \in 1..Len(items) |-> items[i].val]

Perms(n) == {f \in [1..n -> 1..n] : \A i, j \in 1..n : i # j => f[i] # f[j]}

\* What sort_values gives with its default kind, "quicksort", which is not a
\* stable sort: the rows in some order in which the keys do not decrease.
\* Rows of equal keys come out in an order the sort does not determine.
QuickSorts(items) ==
    {[i \in 1..Len(items) |-> items[f[i]]] :
        f \in {g \in Perms(Len(items)) :
                  \A i \in 1..(Len(items) - 1) :
                      ~KeyLess(items[g[i + 1]].key, items[g[i]].key)}}

(***************************************************************************)
(* get_skill_table, lines 74-100.  Level names are sequences of            *)
(* one-character strings, so that str.capitalize is computed.              *)
(***************************************************************************)
LowerLetters == <<"a", "b", "c", "d", "e", "f", "g", "h", "i", "j", "k", "l", "m",
                  "n", "o", "p", "q", "r", "s", "t", "u", "v", "w", "x", "y", "z">>
UpperLetters == <<"A", "B", "C", "D", "E", "F", "G", "H", "I", "J", "K", "L", "M",
                  "N", "O", "P", "Q", "R", "S", "T", "U", "V", "W", "X", "Y", "Z">>

ToUpper(c) ==
    IF \E i \in 1..Len(LowerLetters) : LowerLetters[i] = c
    THEN UpperLetters[CHOOSE i \in 1..Len(LowerLetters) : LowerLetters[i] = c]
    ELSE c

ToLower(c) ==
    IF \E i \in 1..Len(UpperLetters) : UpperLetters[i] = c
    THEN LowerLetters[CHOOSE i \in 1..Len(UpperLetters) : UpperLetters[i] = c]
    ELSE c

\* str.capitalize: the first character upper-cased, the rest lower-cased.
capitalize(s) ==
    [i \in 1..Len(s) |-> IF i = 1 THEN ToUpper(s[i]) ELSE ToLower(s[i])]

Advanced     == <<"A", "d", "v", "a", "n", "c", "e", "d">>
Intermediate == <<"I", "n", "t", "e", "r", "m", "e", "d", "i", "a", "t", "e">>
Fundamental  == <<"F", "u", "n", "d", "a", "m", "e", "n", "t", "a", "l">>

Levels == {Advanced, Intermediate, Fundamental}

\* LEVEL_ORDER[level], for a level that is one of its keys.
LEVEL_ORDER(level) ==
    IF level = Advanced THEN 0 ELSE IF level = Intermediate THEN 1 ELSE 2

\* NormalizeLevel without the capitalization.
NormalizeLevel_NoCapitalize(level_raw) ==
    IF level_raw \in Levels THEN level_raw ELSE Fundamental

\* The level of one key of the response (lines 81-83).
NormalizeLevel(level_raw) ==
    LET level == capitalize(level_raw)
    IN  IF level \in Levels THEN level ELSE Fundamental

MissingTag == "<no tagName>"

\* The record of one skill of one level (lines 86-92).
SkillRecord(username, level, s) ==
    [Level    |-> level,
     Skill    |-> IF s.tagName = MissingTag THEN "Unknown" ELSE s.tagName,
     Solved   |-> IF s.problemsSolved = Missing THEN 0 ELSE s.problemsSolved.n,
     Username |-> username]

\* The loop over data.items() (lines 80-92); a value that is no list adds
\* nothing.
RECURSIVE SkillRecords(_, _)
SkillRecords(username, items) ==
    IF items = <<>> THEN <<>>
    ELSE LET it    == Head(items)
             level == NormalizeLevel(it.level)
             recs  == IF it.isList
                      THEN [i \in 1..Len(it.skills) |->
                               SkillRecord(username, level, it.skills[i])]
                      ELSE <<>>
         IN  recs \o SkillRecords(username, Tail(items))

\* The key of sort_values(["_sort", "Problems Solved"], ascending=[True, False]).
SkillKey(r) == <<LEVEL_ORDER(r.Level), 0 - r.Solved>>

\* get_skill_table's body on the response of the skill endpoint: a failed
\* request, or a response that is no JSON object, gives the empty table.
get_skill_table(username, resp) ==
    IF ~resp.ok THEN <<>>
    ELSE LET records == SkillRecords(username, resp.json)
         IN  Vals(StableSort([i \in 1..Len(records) |->
                                 [key |-> SkillKey(records[i]), val |-> records[i]]]))

(***************************************************************************)
(* SpecSkill: get_skill_table applied to the responses of a bounded set.   *)
(***************************************************************************)
Unrated    == <<"u", "n", "r", "a", "t", "e", "d">>
advancedLc == <<"a", "d", "v", "a", "n", "c", "e", "d">>
INTERMEDIATE == <<"I", "N", "T", "E", "R", "M", "E", "D", "I", "A", "T", "E">>

RawLevels == {advancedLc, INTERMEDIATE, Fundamental, Unrated}

SkillDicts ==
    [tagName : {"Arrays", MissingTag},
     problemsSolved : {Missing} \cup {IntR(n) : n \in 1..MaxSolved}]

SkillItems ==
    [level : RawLevels, isList : {TRUE}, skills : SeqsUpTo(SkillDicts, 1)]
    \cup [level : {advancedLc}, isList : {FALSE}, skills : {<<>>}]

SkillResponses ==
    {[ok |-> FALSE, json |-> <<>>]}
    \cup [ok : {TRUE}, json : SeqsUpTo(SkillItems, MaxLevels)]

InitSkill ==
    /\ csv = <<>> /\ msg = "" /\ lastAdd = NoAdd
    /\ profCache = EmptyCache /\ skillCache = EmptyCache
    /\ clock = 0 /\ ticks = {} /\ log = <<>>
    /\ prev_ranks = NoRanks /\ lastRun = NoRun
    /\ arg \in SkillResponses /\ res = Pending

ApplySkill ==
    /\ res = Pending
    /\ res' = [k |-> "table", rows |-> get_skill_table("alice", arg)]
    /\ UNCHANGED <<storeVars, cacheVars, runVars, arg>>

SpecSkill == InitSkill /\ [][ApplySkill]_vars

\* The level the claim gives a raw level name: the name with its first
\* letter upper-cased and the others lower-cased when that is one of the
\* three levels, Fundamental otherwise.
ExpectedLevel(raw) ==
    LET cap == <<ToUpper(raw[1])>> \o [i \in 1..(Len(raw) - 1) |-> ToLower(raw[i + 1])]
    IN  IF cap \in Levels THEN cap ELSE Fundamental

\* How many skills the response lists under the keys whose level is L.
RECURSIVE ExpectedCount(_, _)
ExpectedCount(items, L) ==
    IF items = <<>> THEN 0
    ELSE (IF Head(items).isList /\ ExpectedLevel(Head(items).level) = L
          THEN Len(Head(items).skills) ELSE 0)
         + ExpectedCount(Tail(items), L)

\* C9: every record get_skill_table returns has a level among Advanced,
\* Intermediate and Fundamental; a raw level that is none of them once
\* capitalized has become Fundamental (each level holds as many records as
\* the response lists for it); and the records are ordered by level rank
\* and then by problems solved, descending.
C9_SkillTable ==
    res # Pending =>
        LET t == res.rows IN
        /\ \A i \in 1..Len(t) : t[i].Level \in Levels
        /\ \A L \in Levels :
              Cardinality({i \in 1..Len(t) : t[i].Level = L})
                  = IF arg.ok THEN ExpectedCount(arg.json, L) ELSE 0
        /\ \A i \in 1..(Len(t) - 1) :
              \/ LEVEL_ORDER(t[i].Level) < LEVEL_ORDER(t[i + 1].Level)
              \/ /\ t[i].Level = t[i + 1].Level
                 /\ t[i].Solved >= t[i + 1].Solved

\* An "unrated" key listed before an "advanced" one: its record is returned
\* as Fundamental, after the Advanced one.
C9_Witness ==
    /\ res # Pending
    /\ Len(arg.json) = 2
    /\ arg.json[1].level = Unrated /\ Len(arg.json[1].skills) = 1
    /\ arg.json[2].level = advancedLc /\ Len(arg.json[2].skills) = 1
    /\ Len(res.rows) = 2
    /\ res.rows[1].Level = Advanced
    /\ res.rows[2].Level = Fundamental

(***************************************************************************)
(* The profile endpoint and the memo of @st.cache_data(ttl=CACHE_TTL).     *)
(* A profile is None or a dict; a key the dict does not hold is Missing.   *)
(***************************************************************************)
NoStats == [k |-> "missing", ac |-> [k |-> "missing", items |-> <<>>],
            total |-> [k |-> "missing", items |-> <<>>]]

NoneProf == [k |-> "None", ranking |-> Missing, totalSolved |-> Missing,
             stats |-> NoStats]

Dict(ranking, totalSolved) ==
    [k |-> "dict", ranking |-> ranking, totalSolved |-> totalSolved,
     stats |-> NoStats]

\* get_profile's body on the response of the profile endpoint (lines 53-59).
get_profile(username, resp) == IF resp.ok THEN resp.json ELSE NoneProf

\* bool(prof): None and the empty dict are false.
Truthy(prof) ==
    /\ prof.k = "dict"
    /\ \/ prof.ranking # Missing \/ prof.totalSolved # Missing
       \/ prof.stats.k # "missing"

\* dict.get(key, default)
Get(field, default) == IF field = Missing THEN default ELSE field

\* An entry off by one second: stale one second early.
Fresh_OffByOne(e, now) == e.present /\ now - e.ts + 1 < CACHE_TTL

\* A memo entry is served while it is younger than the TTL (line 51).
Fresh(e, now) == e.present /\ now - e.ts < CACHE_TTL

\* A call of a memoized function: the entry is served, or the body runs on
\* the network's response and its value is stored.  value is what the body
\* returns should it run.
Memo(cache, username, now, value) ==
    IF Fresh(cache[username], now)
    THEN [cache |-> cache, ret |-> cache[username].data, net |-> FALSE]
    ELSE [cache |-> [cache EXCEPT ![username] =
                        [present |-> TRUE, ts |-> now, data |-> value]],
          ret |-> value, net |-> TRUE]

(***************************************************************************)
(* SpecCache: calls of the two fetchers, "Refresh All" clears and the      *)
(* passing of time, in any order.                                          *)
(***************************************************************************)
CacheProfResponses ==
    {[ok |-> FALSE, json |-> NoneProf]}
    \cup {[ok |-> TRUE, json |-> Dict(IntR(1), IntR(1))]}

CacheSkillResponses ==
    {[ok |-> FALSE, json |-> <<>>],
     [ok |-> TRUE,
      json |-> <<[level |-> advancedLc, isList |-> TRUE,
                  skills |-> <<[tagName |-> "Arrays", problemsSolved |-> IntR(1)]>>]>>]}

InitCache ==
    /\ csv = <<>> /\ msg = "" /\ lastAdd = NoAdd
    /\ profCache = EmptyCache /\ skillCache = EmptyCache
    /\ clock = 0 /\ ticks = {} /\ log = <<>>
    /\ prev_ranks = NoRanks /\ lastRun = NoRun
    /\ arg = Pending /\ res = Pending

Event(op, u, m) == [op |-> op, user |-> u, time |-> clock, net |-> m.net, data |-> m.ret]

\* get_profile(u), the endpoint answering resp if it is asked.
CallProfile(u, resp) ==
    /\ Len(log) < MaxLog
    /\ LET m == Memo(profCache, u, clock, get_profile(u, resp))
       IN  /\ profCache' = m.cache
           /\ log' = Append(log, Event("profile", u, m))
    /\ UNCHANGED <<storeVars, skillCache, clock, ticks, runVars, pureVars>>

\* get_skill_table(u), the endpoint answering resp if it is asked.
CallSkill(u, resp) ==
    /\ Len(log) < MaxLog
    /\ LET m == Memo(skillCache, u, clock, get_skill_table(u, resp))
       IN  /\ skillCache' = m.cache
           /\ log' = Append(log, Event("skill", u, m))
    /\ UNCHANGED <<storeVars, profCache, clock, ticks, runVars, pureVars>>

\* st.cache_data.clear() and the reset of prev_ranks (lines 138-139).
ClearCache ==
    /\ Len(log) < MaxLog
    /\ profCache' = EmptyCache
    /\ skillCache' = EmptyCache
    /\ prev_ranks' = NoRanks
    /\ log' = Append(log, [op |-> "clear", user |-> "", time |-> clock,
                           net |-> FALSE, data |-> None])
    /\ UNCHANGED <<storeVars, clock, ticks, lastRun, pureVars>>

\* The lengths of time that pass between two steps: a second, and a second
\* less than the TTL.  Each passes once, in either order, so that two calls
\* are 0, 1, 1799 or 1800 seconds apart.
TickSteps == {1, CACHE_TTL - 1}

\* d seconds pass.
Tick(d) ==
    /\ d \notin ticks
    /\ clock' = clock + d
    /\ ticks' = ticks \cup {d}
    /\ UNCHANGED <<storeVars, profCache, skillCache, log, runVars, pureVars>>

NextCache ==
    \/ \E u \in Users, resp \in CacheProfResponses : CallProfile(u, resp)
    \/ \E u \in Users, resp \in CacheSkillResponses : CallSkill(u, resp)
    \/ ClearCache
    \/ \E d \in TickSteps : Tick(d)

SpecCache == InitCache /\ [][NextCache]_vars

IsFetch(e) == e.op \in {"profile", "skill"}

SameCall(e, f) == IsFetch(e) /\ e.op = f.op /\ e.user = f.user

\* C1: a fetch made less than 1800 seconds after a fetch of the same
\* function and username that went to the network and was cached, with no
\* clear in between, returns that fetch's data without a network call; and the
\* first fetch of a function and username after a clear goes to the network.
C1_CacheTTL ==
    /\ \A i, j \in 1..Len(log) :
          /\ i < j /\ SameCall(log[i], log[j]) /\ log[i].net
          /\ log[j].time - log[i].time < CACHE_TTL
          /\ \A m \in (i + 1)..(j - 1) : log[m].op # "clear"
          => /\ ~log[j].net
             /\ log[j].data = log[i].data
    /\ \A i, j \in 1..Len(log) :
          /\ i < j /\ log[i].op = "clear" /\ IsFetch(log[j])
          /\ \A m \in (i + 1)..(j - 1) : ~SameCall(log[m], log[j])
          => log[j].net

\* A cached fetch, the same fetch 1799 seconds later served from the memo,
\* then a clear and the same fetch going to the network again.
C1_Witness ==
    /\ Len(log) >= 2
    /\ SameCall(log[1], log[2])
    /\ log[1].net /\ ~log[2].net
    /\ log[2].time - log[1].time = CACHE_TTL - 1
    /\ \E i, j \in 1..Len(log) :
          /\ i < j /\ log[i].op = "clear" /\ SameCall(log[1], log[j]) /\ log[j].net

(***************************************************************************)
(* rank_change, lines 102-110.  Its result is the text it formats: the     *)
(* word and the number, or the exception it raises.                        *)
(***************************************************************************)
Text(word, n) == [k |-> word, n |-> n]
EmptyText     == Text("", 0)
TypeError     == Text("TypeError", 0)

\* rank_change with the operands of the subtraction exchanged.
rank_change_Swapped(old, new) ==
    IF old = None \/ old = NA THEN EmptyText
    ELSE IF new.k # "int" THEN TypeError
    ELSE LET diff == new.n - old.n
         IN  IF diff > 0 THEN Text("Up", diff)
             ELSE IF diff < 0 THEN Text("Down", 0 - diff)
             ELSE Text("No change", 0)

\* pd.isna(None) holds; an int minus None, or minus a str, raises TypeError.
rank_change(old, new) ==
    IF old = None \/ old = NA THEN EmptyText
    ELSE IF new.k # "int" THEN TypeError
    ELSE LET diff == old.n - new.n
         IN  IF diff > 0 THEN Text("Up", diff)
             ELSE IF diff < 0 THEN Text("Down", 0 - diff)
             ELSE Text("No change", 0)

Ranks == {IntR(n) : n \in 1..MaxRank}

InitRank ==
    /\ csv = <<>> /\ msg = "" /\ lastAdd = NoAdd
    /\ profCache = EmptyCache /\ skillCache = EmptyCache
    /\ clock = 0 /\ ticks = {} /\ log = <<>>
    /\ prev_ranks = NoRanks /\ lastRun = NoRun
    /\ arg \in [old : Ranks \cup {None, NA}, new : Ranks \cup {None}]
    /\ res = Pending

ApplyRank ==
    /\ res = Pending
    /\ res' = rank_change(arg.old, arg.new)
    /\ UNCHANGED <<storeVars, cacheVars, runVars, arg>>

SpecRank == InitRank /\ [][ApplyRank]_vars

\* C2: rank_change(old, new) is "" when old is None or "N/A"; for integer
\* ranks it is "Up {old-new}" when old > new, "Down {new-old}" when
\* old < new and "No change" when they are equal.
C2_RankChange ==
    res # Pending =>
        /\ arg.old \in {None, NA} => res = EmptyText
        /\ arg.old \in Ranks /\ arg.new \in Ranks =>
              /\ arg.old.n > arg.new.n => res = Text("Up", arg.old.n - arg.new.n)
              /\ arg.old.n < arg.new.n => res = Text("Down", arg.new.n - arg.old.n)
              /\ arg.old.n = arg.new.n => res = Text("No change", 0)

\* rank_change(5, 3) = "Up 2"
C2_Witness ==
    /\ arg = [old |-> IntR(5), new |-> IntR(3)]
    /\ res = Text("Up", 2)

(***************************************************************************)
(* compute_accuracy, lines 61-71.  A percentage is counted in hundredths   *)
(* of a percent: 3333 is 33.33.                                            *)
(***************************************************************************)
Raised == [k |-> "raised", n |-> 0]

\* The percentage cut off after two decimals instead of rounded.
Round2_Truncated(a, sub) == (10000 * a) \div sub

\* round(a / sub * 100, 2), in hundredths: to the nearest, a tie to the even
\* one.
Round2(a, sub) ==
    LET q == (10000 * a) \div sub
        r == (10000 * a) % sub
    IN  IF 2 * r < sub THEN q
        ELSE IF 2 * r > sub THEN q + 1
        ELSE IF q % 2 = 0 THEN q ELSE q + 1

\* The loop over zip(ac, total) from pair i on: the value returned, Raised
\* when a key is missing, or None when the loop ends without a return.
RECURSIVE ZipLoop(_, _, _)
ZipLoop(ac, total, i) ==
    IF i > Len(ac) \/ i > Len(total) THEN None
    ELSE LET a == ac[i]
             t == total[i]
         IN  IF a.difficulty = MissingTag THEN Raised
             ELSE IF a.difficulty # "All" THEN ZipLoop(ac, total, i + 1)
             ELSE IF t.submissions = Missing THEN Raised
             ELSE IF t.submissions.n = 0 THEN IntR(0)
             ELSE IF a.submissions = Missing THEN Raised
             ELSE IntR(Round2(a.submissions.n, t.submissions.n))

\* The body of the try block.
AccuracyBody(profile) ==
    IF profile.stats.k = "missing" THEN Raised
    ELSE IF profile.stats.ac.k = "missing" THEN Raised
    ELSE IF profile.stats.total.k = "missing" THEN Raised
    ELSE ZipLoop(profile.stats.ac.items, profile.stats.total.items, 1)

\* compute_accuracy: the value returned in the loop, 0.0 otherwise.
compute_accuracy(profile) ==
    LET v == AccuracyBody(profile)
    IN  IF v.k = "int" THEN v.n ELSE 0

Counts == {Missing} \cup {IntR(n) : n \in 0..MaxSub}

AcBuckets ==
    [difficulty : {"All"}, submissions : Counts]
    \cup {[difficulty |-> "Easy", submissions |-> IntR(1)],
          [difficulty |-> MissingTag, submissions |-> IntR(1)]}

TotalBuckets == [submissions : Counts]

List(items) == [k |-> "list", items |-> items]

StatsDicts ==
    {NoStats}
    \cup [k : {"dict"},
          ac : {NoStats.ac} \cup {List(x) : x \in SeqsUpTo(AcBuckets, MaxBuckets)},
          total : {NoStats.total} \cup {List(x) : x \in SeqsUpTo(TotalBuckets, MaxBuckets)}]

InitAccuracy ==
    /\ csv = <<>> /\ msg = "" /\ lastAdd = NoAdd
    /\ profCache = EmptyCache /\ skillCache = EmptyCache
    /\ clock = 0 /\ ticks = {} /\ log = <<>>
    /\ prev_ranks = NoRanks /\ lastRun = NoRun
    /\ arg \in [k : {"dict"}, ranking : {IntR(1)}, totalSolved : {IntR(1)},
                stats : StatsDicts]
    /\ res = Pending

ApplyAccuracy ==
    /\ res = Pending
    /\ res' = IntR(compute_accuracy(arg))
    /\ UNCHANGED <<storeVars, cacheVars, runVars, arg>>

SpecAccuracy == InitAccuracy /\ [][ApplyAccuracy]_vars

\* The payload holds both arrays.
HasArrays(p) ==
    p.stats.k = "dict" /\ p.stats.ac.k = "list" /\ p.stats.total.k = "list"

\* The pairs of the two arrays.
Pairs(p) ==
    {i \in 1..Len(p.stats.ac.items) : i <= Len(p.stats.total.items)}

\* Pair i is the first whose accepted entry is the "All" bucket.
FirstAll(p, i) ==
    /\ i \in Pairs(p)
    /\ p.stats.ac.items[i].difficulty = "All"
    /\ \A j \in 1..(i - 1) : p.stats.ac.items[j].difficulty # "All"

\* No key that the function reads is missing in the pairs up to pair i: the
\* payload is well formed as far as the function looks.
WellFormedUpTo(p, i) ==
    \A j \in 1..i :
        /\ p.stats.ac.items[j].difficulty # MissingTag
        /\ p.stats.total.items[j].submissions # Missing
           \/ p.stats.ac.items[j].difficulty # "All"
        /\ p.stats.ac.items[j].submissions # Missing
           \/ p.stats.ac.items[j].difficulty # "All"
           \/ p.stats.total.items[j].submissions = IntR(0)

\* h hundredths is accepted/total as a percentage rounded to two decimals.
IsRounded(h, accepted, total) ==
    /\ 2 * (h * total - 10000 * accepted) <= total
    /\ 2 * (10000 * accepted - h * total) <= total

\* What compute_accuracy returns in the cases the claim does not tie to the
\* range: never an exception; the rounded percentage of the first "All" pair
\* when its total is positive and 0.0 when it is 0; 0.0 when there is no
\* such pair, when an array is missing, or when a key is missing up to that
\* pair.
AccuracyCases ==
    /\ res.k = "int"
    /\ \A i \in Pairs(arg) :
          HasArrays(arg) /\ FirstAll(arg, i) /\ WellFormedUpTo(arg, i) =>
              LET a == arg.stats.ac.items[i].submissions
                  t == arg.stats.total.items[i].submissions.n
              IN  /\ t > 0 => IsRounded(res.n, a.n, t)
                  /\ t = 0 => res.n = 0
    /\ \A i \in Pairs(arg) :
          HasArrays(arg) /\ FirstAll(arg, i) /\ ~WellFormedUpTo(arg, i) => res.n = 0
    /\ HasArrays(arg) /\ (\A i \in Pairs(arg) : ~FirstAll(arg, i)) => res.n = 0
    /\ ~HasArrays(arg) => res.n = 0

\* The first "All" pair is read whole and its total is positive.
AllPairRead(i) ==
    /\ HasArrays(arg) /\ FirstAll(arg, i) /\ WellFormedUpTo(arg, i)
    /\ arg.stats.total.items[i].submissions.n > 0

BoardKey(row) == <<0 - row.Total, 0>>

\* The tables pd.DataFrame(rows).sort_values("Total Solved", ascending=False)
\* can be, each with df.index = range(1, len(df) + 1).
Leaderboards(rows) ==
    {[i \in 1..Len(t) |-> [Index |-> i, Username |-> t[i].val.Username,
                           Total |-> t[i].val.Total]] :
        t \in QuickSorts([i \in 1..Len(rows) |->
                            [key |-> BoardKey(rows[i]), val |-> rows[i]]])}

\* The users of the board, in the order they are fetched.
BoardUsers == <<"alice", "bob", "carol", "dave">>

InitBoard ==
    /\ csv = <<>> /\ msg = "" /\ lastAdd = NoAdd
    /\ profCache = EmptyCache /\ skillCache = EmptyCache
    /\ clock = 0 /\ ticks = {} /\ log = <<>>
    /\ prev_ranks = NoRanks /\ lastRun = NoRun
    /\ \E n \in 1..MaxBoard : \E tot \in [1..n -> 0..MaxSolved] :
          arg = [i \in 1..n |-> [Username |-> BoardUsers[i], Total |-> tot[i]]]
    /\ res = Pending

SortBoard ==
    /\ res = Pending
    /\ \E t \in Leaderboards(arg) : res' = [k |-> "table", rows |-> t]
    /\ UNCHANGED <<storeVars, cacheVars, runVars, arg>>

SpecBoard == InitBoard /\ [][SortBoard]_vars

\* The place of a user in the fetch order.
FetchPos(u) == CHOOSE i \in 1..Len(arg) : arg[i].Username = u

SkillNames == <<"Arrays", "Graphs">>

\* The levels in the order of their names, which is how a pivot orders them.
LevelNames == <<Advanced, Fundamental, Intermediate>>

IndexIn(seq, x) == CHOOSE i \in 1..Len(seq) : seq[i] = x

HeatUsers == <<"alice", "bob">>

RECURSIVE SumSolved(_, _, _, _)
SumSolved(all, skill, level, user) ==
    IF all = <<>> THEN 0
    ELSE (IF Head(all).Skill = skill /\ Head(all).Level = level
             /\ Head(all).Username = user
          THEN Head(all).Solved ELSE 0)
         + SumSolved(Tail(all), skill, level, user)

\* The rows of pivot_table(index=["Skill", "Level", "_sort"], columns="Username",
\* values="Problems Solved", aggfunc="sum", fill_value=0).reset_index(): one
\* row for each (skill, level) that has a record, in the order of the skill
\* names and then of the level names; one column for each user that has a
\* record.
PivotRow(all, skill, level) ==
    [Skill |-> skill, Level |-> level,
     cells |-> [u \in {all[i].Username : i \in 1..Len(all)} |->
                   SumSolved(all, skill, level, u)]]

RECURSIVE PivotFrom(_, _, _)
PivotFrom(all, si, li) ==
    IF si > Len(SkillNames) THEN <<>>
    ELSE IF li > Len(LevelNames) THEN PivotFrom(all, si + 1, 1)
    ELSE (IF \E i \in 1..Len(all) :
                all[i].Skill = SkillNames[si] /\ all[i].Level = LevelNames[li]
          THEN <<PivotRow(all, SkillNames[si], LevelNames[li])>>
          ELSE <<>>)
         \o PivotFrom(all, si, li + 1)

pivot_table(all) == PivotFrom(all, 1, 1)

\* The matrices pivot.sort_values("_sort").drop(columns="_sort") can be.
Heatmaps(all) ==
    {Vals(t) : t \in QuickSorts([i \in 1..Len(pivot_table(all)) |->
                                    [key |-> <<LEVEL_ORDER(pivot_table(all)[i].Level), 0>>,
                                     val |-> pivot_table(all)[i]]])}

HeatSkills ==
    {<<[tagName |-> t, problemsSolved |-> IntR(n)]>> :
        t \in Range(SkillNames), n \in 1..MaxSolved}

HeatItems == [level : {advancedLc, Unrated, Fundamental}, isList : {TRUE},
              skills : HeatSkills]

HeatResponses == [ok : {TRUE}, json : SeqsUpTo(HeatItems, MaxLevels)]

\* all_skills: the tables get_skill_table returned, in the order of the users.
AllSkills(resps) ==
    get_skill_table(HeatUsers[1], resps[1]) \o get_skill_table(HeatUsers[2], resps[2])

InitHeat ==
    /\ csv = <<>> /\ msg = "" /\ lastAdd = NoAdd
    /\ profCache = EmptyCache /\ skillCache = EmptyCache
    /\ clock = 0 /\ ticks = {} /\ log = <<>>
    /\ prev_ranks = NoRanks /\ lastRun = NoRun
    /\ arg \in {<<a, b>> : a \in HeatResponses, b \in HeatResponses}
    /\ res = Pending

\* The heatmap is built when all_skills is not empty (line 292).
BuildHeat ==
    /\ res = Pending
    /\ AllSkills(arg) # <<>>
    /\ \E t \in Heatmaps(AllSkills(arg)) : res' = [k |-> "table", rows |-> t]
    /\ UNCHANGED <<storeVars, cacheVars, runVars, arg>>

SpecHeat == InitHeat /\ [][BuildHeat]_vars

\* C8, the cells: the cell of a (skill, level) row and a user's column is the
\* sum of problemsSolved over the user's records of that skill and level, 0
\* if there is none.
C8_Cells ==
    res # Pending =>
        \A j \in 1..Len(res.rows) : \A u \in DOMAIN res.rows[j].cells :
            res.rows[j].cells[u]
                = SumSolved(AllSkills(arg), res.rows[j].Skill, res.rows[j].Level, u)

Row(user, prof, delta) ==
    [Username |-> user,
     Total    |-> Get(prof.totalSolved, IntR(0)),
     Rank     |-> Get(prof.ranking, NA),
     Delta    |-> delta]

\* What line 170 stores for a user.
StoredRank(prof) == IF Truthy(prof) THEN Get(prof.ranking, None) ELSE NA

\* The loop from user i on.  st holds the two memos, prev_ranks, the rows
\* and the profiles fetched so far; presp[user] and sresp[user] are what the
\* endpoints answer for a user if they are asked.  An exception in
\* rank_change ends the loop and the run.
RECURSIVE FetchLoop(_, _, _, _, _, _)
FetchLoop(users, i, st, presp, sresp, now) ==
    IF i > Len(users) THEN st
    ELSE LET user  == users[i].v
             m     == Memo(st.pc, user, now, get_profile(user, presp[user]))
             prof  == m.ret
             delta == rank_change(Get(st.prev[user], None), Get(prof.ranking, None))
             ms    == Memo(st.sc, user, now, get_skill_table(user, sresp[user]))
         IN  IF Truthy(prof) /\ delta = TypeError
             THEN [st EXCEPT !.pc = m.cache, !.profs = Append(@, prof),
                             !.crashed = TRUE]
             ELSE FetchLoop(users, i + 1,
                     [pc      |-> m.cache,
                      sc      |-> IF Truthy(prof) THEN ms.cache ELSE st.sc,
                      prev    |-> [st.prev EXCEPT ![user] = StoredRank(prof)],
                      rows    |-> IF Truthy(prof)
                                  THEN Append(st.rows, Row(user, prof, delta))
                                  ELSE st.rows,
                      profs   |-> Append(st.profs, prof),
                      crashed |-> FALSE],
                     presp, sresp, now)

\* One run of the script from line 142: the memos and prev_ranks afterwards,
\* and the history of the run.  reached: the run drew the page to its end.
RunScript(file, pc, sc, prev, presp, sresp, now) ==
    LET users == load_users(file)
        st    == IF users = <<>>
                 THEN [pc |-> pc, sc |-> sc, prev |-> prev, rows |-> <<>>,
                       profs |-> <<>>, crashed |-> FALSE]
                 ELSE FetchLoop(users, 1,
                         [pc |-> pc, sc |-> sc, prev |-> prev, rows |-> <<>>,
                          profs |-> <<>>, crashed |-> FALSE],
                         presp, sresp, now)
    IN  [pc |-> st.pc, sc |-> st.sc, prev |-> st.prev,
         run |-> [ran |-> TRUE, users |-> save_users(users), before |-> prev,
                  profs |-> st.profs, rows |-> st.rows, crashed |-> st.crashed,
                  reached |-> ~st.crashed /\ st.rows # <<>>]]

(***************************************************************************)
(* SpecPipeline: the session.  Every interaction runs the script; a click  *)
(* runs its handler at the handler's place in the script.                  *)
(***************************************************************************)
PipeProfResponses ==
    {[ok |-> FALSE, json |-> NoneProf],
     [ok |-> TRUE, json |-> Dict(Missing, IntR(1))]}
    \cup {[ok |-> TRUE, json |-> Dict(IntR(r), IntR(1))] : r \in 1..2}

PipeSkillResponses == CacheSkillResponses

InitPipeline ==
    /\ csv = <<>> /\ msg = "" /\ lastAdd = NoAdd
    /\ profCache = EmptyCache /\ skillCache = EmptyCache
    /\ clock = 0 /\ ticks = {} /\ log = <<>>
    /\ prev_ranks = NoRanks /\ lastRun = NoRun
    /\ arg = Pending /\ res = Pending

Commit(r) ==
    /\ profCache' = r.pc
    /\ skillCache' = r.sc
    /\ prev_ranks' = r.prev
    /\ lastRun' = r.run

\* An interaction with no handler of its own (the page is opened, a skill
\* is picked): the script runs.
Rerun(presp, sresp) ==
    /\ Commit(RunScript(csv, profCache, skillCache, prev_ranks, presp, sresp, clock))
    /\ UNCHANGED <<storeVars, clock, ticks, log, pureVars>>

\* A click on "Add User(s)": the handler (lines 123-135), then the script
\* from line 142, in the same run or in the rerun the handler asks for.
ClickAdd(input, presp, sresp) ==
    /\ Len(csv) + Len(input) <= MaxRows
    /\ LET h == AddHandler(csv, input)
       IN  /\ csv' = h.file
           /\ msg' = h.msg
           /\ lastAdd' = [toks |-> h.toks, files |-> h.files, rets |-> h.rets]
           /\ Commit(RunScript(h.file, profCache, skillCache, prev_ranks,
                               presp, sresp, clock))
    /\ UNCHANGED <<clock, ticks, log, pureVars>>

\* A click on "Refresh All (clear cache)" (lines 137-140), and the rerun.
ClickRefresh(presp, sresp) ==
    /\ Commit(RunScript(csv, EmptyCache, EmptyCache, NoRanks, presp, sresp, clock))
    /\ UNCHANGED <<storeVars, clock, ticks, log, pureVars>>

\* A click on the Remove button of row i, which the last run drew: the
\* script runs to the button (line 350), removes the user and runs again.
\* A run that does not get to the button does nothing more.
ClickRemove(i, presp, sresp) ==
    /\ lastRun.ran /\ lastRun.reached
    /\ i \in 1..Len(csv)
    /\ LET r1 == RunScript(csv, profCache, skillCache, prev_ranks, presp, sresp, clock)
           f  == remove_user(csv, load_users(csv)[i])
       IN  IF r1.run.reached
           THEN /\ csv' = f
                /\ Commit(RunScript(f, r1.pc, r1.sc, r1.prev, presp, sresp, clock))
           ELSE /\ csv' = csv
                /\ Commit(r1)
    /\ msg' = ""
    /\ lastAdd' = NoAdd
    /\ UNCHANGED <<clock, ticks, log, pureVars>>

\* One username is typed at a time.
PipeInputs == {<<u>> : u \in Users}

\* What an endpoint answers for each user during one run of the script over
\* the list file with the memo cache: one of the answers S for a user the
\* run asks it about, and, as it makes no difference, the first answer for
\* a user it is not asked about (one who is not listed, or whose entry is
\* fresh).
Answers(S, first, file, cache) ==
    {p \in [Users -> S] :
        \A u \in Users :
            u \notin Range(file) \/ Fresh(cache[u], clock) => p[u] = first}

ProfAnswers(file, cache) ==
    Answers(PipeProfResponses, [ok |-> FALSE, json |-> NoneProf], file, cache)

\* The skill endpoint answers every user alike during one run.
SkillAnswers(file, cache) ==
    {q \in Answers(PipeSkillResponses, [ok |-> FALSE, json |-> <<>>], file, cache) :
        \A u, v \in Users :
            u \in Range(file) /\ ~Fresh(cache[u], clock)
            /\ v \in Range(file) /\ ~Fresh(cache[v], clock) => q[u] = q[v]}

\* In a session of the pipeline the clock advances once, by the TTL.
PipeTickSteps == {CACHE_TTL}

NextPipeline ==
    \/ \E p \in ProfAnswers(csv, profCache), q \in SkillAnswers(csv, skillCache) :
          Rerun(p, q)
    \/ \E input \in PipeInputs :
       \E p \in ProfAnswers(AddHandler(csv, input).file, profCache),
          q \in SkillAnswers(AddHandler(csv, input).file, skillCache) :
          ClickAdd(input, p, q)
    \/ \E p \in ProfAnswers(csv, EmptyCache), q \in SkillAnswers(csv, EmptyCache) :
          ClickRefresh(p, q)
    \/ \E i \in 1..MaxRows :
       \E p \in ProfAnswers(csv, profCache), q \in SkillAnswers(csv, skillCache) :
          ClickRemove(i, p, q)
    \/ \E d \in PipeTickSteps : Tick(d)

SpecPipeline == InitPipeline /\ [][NextPipeline]_vars

\* The users whose profile fetch returned data, in their order.
RECURSIVE WithData(_, _)
WithData(users, profs) ==
    IF users = <<>> \/ profs = <<>> THEN <<>>
    ELSE (IF Truthy(Head(profs)) THEN <<Head(users)>> ELSE <<>>)
         \o WithData(Tail(users), Tail(profs))

\* C5: a run is never fatal: it ends without an uncaught exception, it
\* processes every tracked user, and the leaderboard rows are those of the
\* users whose profile fetch returned data, in their order.
C5_NeverFatal ==
    lastRun.ran =>
        /\ ~lastRun.crashed
        /\ Len(lastRun.profs) = Len(lastRun.users)
        /\ [i \in 1..Len(lastRun.rows) |-> lastRun.rows[i].Username]
               = WithData(lastRun.users, lastRun.profs)

\* The delta the claim gives a previous rank and the rank of the run.
ClaimedDelta(old, new) ==
    IF old.k # "int" THEN EmptyText
    ELSE IF old.n > new.n THEN Text("Up", old.n - new.n)
    ELSE IF old.n < new.n THEN Text("Down", new.n - old.n)
    ELSE Text("No change", 0)

\* C10: in each run every tracked user's delta is computed once, from the
\* rank the earlier runs since the last refresh left for the user and the
\* rank of this run; it is "" when they left none; and after the run the
\* stored previous rank of every tracked user is this run's rank, "N/A" if
\* the user's fetch failed.
C10_RankDelta ==
    lastRun.ran =>
        /\ \A i \in 1..Len(lastRun.users) :
              /\ i <= Len(lastRun.profs)
              /\ prev_ranks[lastRun.users[i]] = StoredRank(lastRun.profs[i])
              /\ Truthy(lastRun.profs[i]) =>
                    \E j \in 1..Len(lastRun.rows) :
                        /\ lastRun.rows[j].Username = lastRun.users[i]
                        /\ lastRun.rows[j].Delta
                               = ClaimedDelta(lastRun.before[lastRun.users[i]],
                                              lastRun.profs[i].ranking)
        /\ \A j, m \in 1..Len(lastRun.rows) :
              j # m => lastRun.rows[j].Username # lastRun.rows[m].Username

=============================================================================
